---- MODULE Spec2Model ----
(***************************************************************************)
(* Harmonization core of GenAI-Music (src/scripts/accomp.py).              *)
(*                                                                         *)
(* Pitch names are integers on the line of fifths:                         *)
(*   ... -3 = E-, -2 = B-, -1 = F, 0 = C, 1 = G, 2 = D, 3 = A, 4 = E,      *)
(*       5 = B, 6 = F#, 7 = C#, 8 = G#, ... 12 = B#, 13 = F##, ...         *)
(* so two pitches have the same name iff they have the same integer, and   *)
(* the pitch class of name f is (7 * f) mod 12.                            *)
(***************************************************************************)
EXTENDS Integers, Sequences, FiniteSets, TLC

VARIABLES pc, music_key, harmony, candidate_keys,
          chord_candidate, dist,
          base_key, note_group, result,
          measures, piano_part,
          ch, current_key, feat,
          files, idx, concat, all_dfs, results, table, log,
          fs, disk, run, dirs, listing, attempted, returned

vars == <<pc, music_key, harmony, candidate_keys,
          chord_candidate, dist,
          base_key, note_group, result,
          measures, piano_part,
          ch, current_key, feat,
          files, idx, concat, all_dfs, results, table, log,
          fs, disk, run, dirs, listing, attempted, returned>>

keyVars == <<music_key, harmony, candidate_keys>>
distVars == <<chord_candidate, dist>>
matchVars == <<base_key, note_group, result>>
pieceVars == <<measures, piano_part>>
encodeVars == <<ch, current_key, feat>>
tableVars == <<files, idx, concat, all_dfs, results, table>>
batchVars == <<fs, disk, run, dirs, listing, attempted, returned>>
\* the variables of accomp.py's harmony functions and of transform.py and
\* the batch run
harmonyVars == <<keyVars, distVars, matchVars, pieceVars>>
corpusVars == <<encodeVars, tableVars, batchVars, log>>

-----------------------------------------------------------------------------
(* Bounds of the model *)

\* key signatures of the keys given to the key functions: up to this many
\* flats or sharps
MaxSignature == 7
\* key signatures of the home keys of the pieces and note groups
MaxHomeSignature == 1
\* largest number of elements of a note group
MaxGroup == 3
\* largest number of notes, rests and chords of a part
MaxPartLen == 4
\* largest number of measures of a part
MaxMeasures == 2
\* pitches of one chord of a harmonized piece
MaxChord == 3
\* quarter lengths of a chord
MaxDuration == 2
\* files met by one walk of a root directory
MaxFiles == 2
\* runs of the batch harmonization over one root
MaxRuns == 2
\* pieces a file name is put together from
MaxPieces == 3

-----------------------------------------------------------------------------
(* music21 pitches and keys, as far as accomp.py uses them *)

None == "None"

\* the variables a specification does not use keep these values
CorpusIdle ==
  /\ ch = None /\ current_key = None /\ feat = None
  /\ files = <<>> /\ idx = 0 /\ concat = FALSE
  /\ all_dfs = <<>> /\ results = <<>> /\ table = None /\ log = <<>>
  /\ fs = {} /\ disk = {} /\ run = 0 /\ dirs = <<>> /\ listing = <<>> /\ attempted = <<>>
  /\ returned = <<>>

HarmonyIdle ==
  /\ music_key = None /\ harmony = <<>> /\ candidate_keys = <<>>
  /\ chord_candidate = None /\ dist = None
  /\ base_key = None /\ note_group = <<>> /\ result = None
  /\ measures = <<>> /\ piano_part = <<>>

Modes == {"major", "minor"}

\* Pitch.pitchClass of a pitch name
PitchClass(f) == (7 * f) % 12

\* the name music21 gives a pitch set from its pitch space value alone:
\* C C# D E- E F F# G G# A B- B
DefaultName(p) == <<0, 7, 2, -3, 4, -1, 6, 1, 8, 3, -2, 5>>[(p % 12) + 1]

\* a name with more than one sharp or flat, respelled with at most one
SimplifyEnharmonic(f) ==
  IF f > 12 THEN f - 12 ELSE IF f < -8 THEN f + 12 ELSE f

\* the steps of a scale on the line of fifths: a major second up is two
\* fifths up, a minor second up is five fifths down
MajorSecond == 2
MinorSecond == -5

ScaleSteps(mode) ==
  IF mode = "major"
    THEN <<MajorSecond, MajorSecond, MinorSecond, MajorSecond,
           MajorSecond, MajorSecond, MinorSecond>>
    ELSE <<MajorSecond, MinorSecond, MajorSecond, MajorSecond,
           MinorSecond, MajorSecond, MajorSecond>>

\* music_key.getScale().getPitches(): the tonic, then each next pitch a
\* step above the previous one, spelled with at most one accidental; eight
\* pitches, from the tonic to its octave
RECURSIVE Realize(_, _, _)
Realize(f, steps, i) ==
  IF i > Len(steps) THEN <<f>>
  ELSE <<f>> \o Realize(SimplifyEnharmonic(f + steps[i]), steps, i + 1)

ScalePitches(k) == Realize(k.tonic, ScaleSteps(k.mode), 1)

\* key.Key(tonic, mode)
Key(tonic, mode) == [tonic |-> tonic, mode |-> mode]

\* key.Key(pitch) without a mode: the name of a Pitch is upper case, and an
\* upper-case tonic makes a major key
KeyOfPitch(f) == Key(f, "major")

\* Pitch.transpose(n) for an integer n: n semitones, default spelling
Transpose(f, semitones) == DefaultName(PitchClass(f) + semitones)

\* Key.relative: the key of the other mode with the same key signature
Relative(k) ==
  IF k.mode = "major" THEN Key(k.tonic + 3, "minor")
  ELSE Key(k.tonic - 3, "major")

\* the keys with a signature of at most n flats or sharps
KeysUpTo(n) ==
  {Key(s, "major") : s \in -n..n} \cup {Key(s + 3, "minor") : s \in -n..n}

-----------------------------------------------------------------------------
(* Harmony utilities *)

degree_names_major == <<"I", "ii", "iii", "IV", "V", "vi", "vii°">>
degree_names_minor == <<"i", "ii°", "III", "iv", "v", "VI", "VII">>

\* chord.Chord([root, third, fifth]): the pitches in the order given
Chord(root, third, fifth) == <<root, third, fifth>>

\* harmony[name] = value on a dict kept in insertion order
DictSet(d, name, value) ==
  IF \E j \in 1..Len(d) : d[j].degree = name
    THEN [j \in 1..Len(d) |->
            IF d[j].degree = name THEN [degree |-> name, chord |-> value]
            ELSE d[j]]
    ELSE Append(d, [degree |-> name, chord |-> value])

\* mutant: the fifth of the triad taken one scale step too low
RECURSIVE HarmonyLoop_Fourth(_, _, _, _)
HarmonyLoop_Fourth(degree_names, scale_pitches, i, acc) ==
  IF i >= Len(degree_names) THEN acc
  ELSE HarmonyLoop_Fourth(degree_names, scale_pitches, i + 1,
         DictSet(acc, degree_names[i + 1],
                 Chord(scale_pitches[i + 1],
                       scale_pitches[((i + 2) % 7) + 1],
                       scale_pitches[((i + 3) % 7) + 1])))

RECURSIVE HarmonyLoop(_, _, _, _)
HarmonyLoop(degree_names, scale_pitches, i, acc) ==
  IF i >= Len(degree_names) THEN acc
  ELSE HarmonyLoop(degree_names, scale_pitches, i + 1,
         DictSet(acc, degree_names[i + 1],
                 Chord(scale_pitches[i + 1],
                       scale_pitches[((i + 2) % 7) + 1],
                       scale_pitches[((i + 4) % 7) + 1])))

get_key_harmony_named(k) ==
  LET degree_names == IF k.mode = "major" THEN degree_names_major
                      ELSE degree_names_minor
  IN  HarmonyLoop(degree_names, ScalePitches(k), 0, <<>>)

\* get_key_harmony_named is a pure function of the key: its value for every
\* key the search can visit, computed once
HarmonyOf ==
  [k \in KeysUpTo(MaxSignature) \cup {KeyOfPitch(DefaultName(p)) : p \in 0..11}
     |-> get_key_harmony_named(k)]

get_common_modulation_keys(k) ==
  LET tonic == k.tonic
      fifth_up == KeyOfPitch(Transpose(tonic, 7))
      fifth_down == KeyOfPitch(Transpose(tonic, -7))
      relative == Relative(k)
  IN  <<k, fifth_up, fifth_down, relative>>

-----------------------------------------------------------------------------
(* The key functions applied to every key: specification SpecKeys *)

InitKeys ==
  /\ CorpusIdle
  /\ pc = "keys"
  /\ music_key \in KeysUpTo(MaxSignature)
  /\ harmony = <<>>
  /\ candidate_keys = <<>>
  /\ chord_candidate = None
  /\ dist = None
  /\ base_key = None
  /\ note_group = <<>>
  /\ result = None
  /\ measures = <<>>
  /\ piano_part = <<>>

BuildTriads ==
  /\ pc = "keys"
  /\ harmony = <<>>
  /\ harmony' = get_key_harmony_named(music_key)
  /\ UNCHANGED <<pc, music_key, candidate_keys, distVars, matchVars, pieceVars, corpusVars>>

Candidates ==
  /\ pc = "keys"
  /\ candidate_keys = <<>>
  /\ candidate_keys' = get_common_modulation_keys(music_key)
  /\ UNCHANGED <<pc, music_key, harmony, distVars, matchVars, pieceVars, corpusVars>>

NextKeys == BuildTriads \/ Candidates

SpecKeys == InitKeys /\ [][NextKeys]_vars

-----------------------------------------------------------------------------
(* Chord matching *)

\* the elements of a note group or measure: note.Note (a name and an
\* octave), note.Rest, and chord.Chord, which is a NotRest but no note.Note
\* a note.Note that a tie joins to its neighbour is still a note.Note: tie is
\* the type of its Tie ("start", "continue", "stop"), None without a tie
Note(name, octave) ==
  [kind |-> "note", name |-> name, octave |-> octave, tie |-> None]
TiedNote(name, octave, tie) ==
  [kind |-> "note", name |-> name, octave |-> octave, tie |-> tie]
Rest == [kind |-> "rest", name |-> 0, octave |-> 0, tie |-> None]
ChordElement == [kind |-> "chord", name |-> 0, octave |-> 0, tie |-> None]

\* isinstance(n, note.Note)
IsNote(n) == n.kind = "note"

\* mutant: the names of the chord the group lacks, not the symmetric
\* difference
chord_distance_one_sided(chord_obj, group) ==
  LET chord_set == {chord_obj[j] : j \in 1..Len(chord_obj)}
      input_set == {group[j].name : j \in {h \in 1..Len(group) : IsNote(group[h])}}
  IN  Cardinality(chord_set \ input_set)

\* mutant: the rests of the group are not filtered out
chord_distance_with_rests(chord_obj, group) ==
  LET chord_set == {chord_obj[j] : j \in 1..Len(chord_obj)}
      input_set == {group[j].name : j \in 1..Len(group)}
  IN  Cardinality((chord_set \ input_set) \cup (input_set \ chord_set))

\* mutant: the notes with a tie are filtered out like the rests
chord_distance_without_ties(chord_obj, group) ==
  LET chord_set == {chord_obj[j] : j \in 1..Len(chord_obj)}
      input_set == {group[j].name :
                      j \in {h \in 1..Len(group) :
                               IsNote(group[h]) /\ group[h].tie = None}}
  IN  Cardinality((chord_set \ input_set) \cup (input_set \ chord_set))

chord_distance_no_octave(chord_obj, group) ==
  LET chord_set == {chord_obj[j] : j \in 1..Len(chord_obj)}
      input_set == {group[j].name : j \in {h \in 1..Len(group) : IsNote(group[h])}}
  IN  Cardinality((chord_set \ input_set) \cup (input_set \ chord_set))

\* float('inf')
Inf == 1000

\* the triads the two nested loops visit, in the order they visit them,
\* each with its distance to the note group
RECURSIVE ScoreKeys(_, _, _)
ScoreKeys(keys, group, i) ==
  IF i > Len(keys) THEN <<>>
  ELSE LET h == HarmonyOf[keys[i]]
       IN  [j \in 1..Len(h) |->
              [key |-> keys[i], degree |-> h[j].degree, chord |-> h[j].chord,
               dist |-> chord_distance_no_octave(h[j].chord, group)]]
           \o ScoreKeys(keys, group, i + 1)

Scored(group, home) == ScoreKeys(get_common_modulation_keys(home), group, 1)

\* mutant: the comparison turned around
Better_Greater(cand, best) == cand.dist > best.distance

\* mutant: a later candidate of equal distance replaces the earlier one
Better_OrEqual(cand, best) == cand.dist <= best.distance

\* if dist < min_distance: the candidate replaces the best one so far
Better(cand, best) == cand.dist < best.distance

RECURSIVE BestLoop(_, _, _)
BestLoop(cands, i, best) ==
  IF i > Len(cands) THEN best
  ELSE BestLoop(cands, i + 1,
         IF Better(cands[i], best)
           THEN [key |-> cands[i].key, chord |-> cands[i].chord,
                 degree |-> cands[i].degree, distance |-> cands[i].dist]
           ELSE best)

\* mutant: the search leaves out the first candidate
BestOf_SkipFirst(cands) ==
  BestLoop(cands, 2,
           [key |-> None, chord |-> None, degree |-> None, distance |-> Inf])

BestOf(cands) ==
  BestLoop(cands, 1,
           [key |-> None, chord |-> None, degree |-> None, distance |-> Inf])

detect_chord_with_modulation(group, home) == BestOf(Scored(group, home))

-----------------------------------------------------------------------------
(* The accompaniment of a part *)

\* the characters of the degree labels
Characters(label) ==
  CASE label = "I" -> <<"I">>
    [] label = "ii" -> <<"i", "i">>
    [] label = "iii" -> <<"i", "i", "i">>
    [] label = "IV" -> <<"I", "V">>
    [] label = "V" -> <<"V">>
    [] label = "vi" -> <<"v", "i">>
    [] label = "vii°" -> <<"v", "i", "i", "°">>
    [] label = "i" -> <<"i">>
    [] label = "ii°" -> <<"i", "i", "°">>
    [] label = "III" -> <<"I", "I", "I">>
    [] label = "iv" -> <<"i", "v">>
    [] label = "v" -> <<"v">>
    [] label = "VI" -> <<"V", "I">>
    [] label = "VII" -> <<"V", "I", "I">>

\* the text of the Lyric that addLyric(text) makes: a hyphen at the start or
\* at the end of the text marks a syllable and is not part of the text
LyricText(chars) ==
  LET n == Len(chars)
      from == IF n > 0 /\ chars[1] = "-" THEN 2 ELSE 1
      to == IF n > 0 /\ chars[n] = "-" THEN n - 1 ELSE n
  IN  IF from > to THEN <<>> ELSE SubSeq(chars, from, to)

\* the quarter length of an element of a measure
QuarterLength(e) == 1

\* measure.duration: the measure lasts as long as its elements
RECURSIVE MeasureDuration(_)
MeasureDuration(measure) ==
  IF measure = <<>> THEN 0
  ELSE QuarterLength(Head(measure)) + MeasureDuration(Tail(measure))

\* measure.notes: the notes and chords of the measure, without the rests
NotesOfMeasure(measure) == SelectSeq(measure, LAMBDA n : n.kind # "rest")

\* if harmony_chord: a Chord with at least one pitch is true
Truthy(harmony_chord) == Len(harmony_chord) > 0

\* a Chord or a Rest of the piano part
ChordEvent(pitches, duration, lyric) ==
  [kind |-> "chord", pitches |-> pitches, duration |-> duration,
   stemDirection |-> "down", lyrics |-> <<lyric>>]
RestEvent(duration) ==
  [kind |-> "rest", pitches |-> <<>>, duration |-> duration,
   stemDirection |-> None, lyrics |-> <<>>]

\* mutant: a measure with fewer than 3 notes gets no event
MeasureEvents_NoElse(measure, home) ==
  LET notes_in_measure == SelectSeq(NotesOfMeasure(measure), IsNote)
  IN  IF Len(notes_in_measure) >= 3
        THEN LET res == detect_chord_with_modulation(notes_in_measure, home)
             IN  <<ChordEvent(res.chord, MeasureDuration(measure),
                              LyricText(Characters(res.degree)))>>
        ELSE <<>>

\* mutant: two notes are enough for a chord
MeasureEvents_TwoNotes(measure, home) ==
  LET notes_in_measure == SelectSeq(NotesOfMeasure(measure), IsNote)
  IN  IF Len(notes_in_measure) >= 2
        THEN LET res == detect_chord_with_modulation(notes_in_measure, home)
             IN  <<ChordEvent(res.chord, MeasureDuration(measure),
                              LyricText(Characters(res.degree)))>>
        ELSE <<RestEvent(MeasureDuration(measure))>>

\* mutant: the rest keeps the quarter length of a new Rest
MeasureEvents_DefaultRest(measure, home) ==
  LET notes_in_measure == SelectSeq(NotesOfMeasure(measure), IsNote)
  IN  IF Len(notes_in_measure) >= 3
        THEN LET res == detect_chord_with_modulation(notes_in_measure, home)
             IN  <<ChordEvent(res.chord, MeasureDuration(measure),
                              LyricText(Characters(res.degree)))>>
        ELSE <<RestEvent(1)>>

\* the body of the loop over the measures: what it appends to the piano
\* part for one measure
MeasureEvents(measure, home) ==
  LET notes_in_measure == SelectSeq(NotesOfMeasure(measure), IsNote)
  IN  IF Len(notes_in_measure) >= 3
        THEN LET res == detect_chord_with_modulation(notes_in_measure, home)
                 harmony_chord == res.chord
             IN  IF Truthy(harmony_chord)
                   THEN <<ChordEvent(harmony_chord, MeasureDuration(measure),
                                     LyricText(Characters(res.degree)))>>
                   ELSE <<>>
        ELSE <<RestEvent(MeasureDuration(measure))>>

RECURSIVE AccompLoop(_, _, _, _)
AccompLoop(part, home, i, piano) ==
  IF i > Len(part) THEN piano
  ELSE AccompLoop(part, home, i + 1, piano \o MeasureEvents(part[i], home))

-----------------------------------------------------------------------------
(* The inputs of the specifications *)

\* the keys part.analyze('key') returns for the pieces
HomeKeys == KeysUpTo(MaxHomeSignature)

\* the names of the scales of the home keys
NoteNames == (-MaxHomeSignature - 1)..(MaxHomeSignature + 5)

\* the names of the scale of C major
NaturalNames == -1..5

Octaves == {3, 4}

RECURSIVE SeqsUpTo(_, _)
SeqsUpTo(S, n) ==
  IF n = 0 THEN {<<>>}
  ELSE LET shorter == SeqsUpTo(S, n - 1)
       IN  shorter \cup {Append(q, e) : q \in {r \in shorter : Len(r) = n - 1}, e \in S}

-----------------------------------------------------------------------------
(* distance applied to the triads of C major and note groups in two        *)
(* octaves: specification SpecDist                                         *)

DistElements == {Note(f, o) : f \in NaturalNames, o \in Octaves} \cup {Rest}

DistChords ==
  LET h == get_key_harmony_named(Key(0, "major"))
  IN  {h[j].chord : j \in 1..Len(h)}

InitDist ==
  /\ CorpusIdle
  /\ pc = "dist"
  /\ chord_candidate \in DistChords
  /\ note_group \in SeqsUpTo(DistElements, MaxGroup)
  /\ dist = None
  /\ music_key = None
  /\ harmony = <<>>
  /\ candidate_keys = <<>>
  /\ base_key = None
  /\ result = None
  /\ measures = <<>>
  /\ piano_part = <<>>

Distance ==
  /\ pc = "dist"
  /\ pc' = "measured"
  /\ dist' = chord_distance_no_octave(chord_candidate, note_group)
  /\ UNCHANGED <<chord_candidate, keyVars, matchVars, pieceVars, corpusVars>>

NextDist == Distance

SpecDist == InitDist /\ [][NextDist]_vars

-----------------------------------------------------------------------------
(* bestMatch applied to every note group and home key: specification       *)
(* SpecMatch                                                               *)

GroupElements == {Note(f, 4) : f \in NoteNames} \cup {Rest}

InitMatch ==
  /\ CorpusIdle
  /\ pc = "match"
  /\ base_key \in HomeKeys
  /\ note_group \in SeqsUpTo(GroupElements, MaxGroup)
  /\ result = None
  /\ music_key = None
  /\ harmony = <<>>
  /\ candidate_keys = <<>>
  /\ chord_candidate = None
  /\ dist = None
  /\ measures = <<>>
  /\ piano_part = <<>>

BestMatch ==
  /\ pc = "match"
  /\ pc' = "matched"
  /\ result' = detect_chord_with_modulation(note_group, base_key)
  /\ UNCHANGED <<base_key, note_group, keyVars, distVars, pieceVars, corpusVars>>

NextMatch == BestMatch

SpecMatch == InitMatch /\ [][NextMatch]_vars

-----------------------------------------------------------------------------
(* add_piano_accompaniment on every part and home key: specification Spec  *)

MeasureElements == {Note(0, 4), Note(1, 4), Rest, ChordElement}

\* the parts of at most m measures with at most n elements altogether
RECURSIVE PartsOf(_, _)
PartsOf(n, m) ==
  IF m = 0 THEN {<<>>}
  ELSE {<<>>} \cup
       UNION {{<<measure>> \o rest : rest \in PartsOf(n - Len(measure), m - 1)} :
                measure \in SeqsUpTo(MeasureElements, n)}

\* the parts the parser can return
Parts == PartsOf(MaxPartLen, MaxMeasures)

Init ==
  /\ CorpusIdle
  /\ pc = "idle"
  /\ base_key = None
  /\ measures = <<>>
  /\ piano_part = <<>>
  /\ music_key = None
  /\ harmony = <<>>
  /\ candidate_keys = <<>>
  /\ chord_candidate = None
  /\ dist = None
  /\ note_group = <<>>
  /\ result = None

\* converter.parse returns the part, part.analyze('key') its home key, and
\* the loop over the measures fills the piano part
add_piano_accompaniment ==
  /\ pc = "idle"
  /\ \E part \in Parts, home \in HomeKeys :
       /\ measures' = part
       /\ base_key' = home
       /\ piano_part' = AccompLoop(part, home, 1, <<>>)
  /\ pc' = "done"
  /\ UNCHANGED <<keyVars, distVars, note_group, result, corpusVars>>

Next == add_piano_accompaniment

Spec == Init /\ [][Next]_vars

-----------------------------------------------------------------------------
(* Properties of the accompaniment (Spec) *)

\* the number of pitched notes of a measure, counted with repetitions
NoteCount(measure) == Cardinality({j \in 1..Len(measure) : measure[j].kind = "note"})

\* C1: the accompaniment track holds exactly one event per measure, in
\* measure order: its length is the number of measures and event i is the
\* one produced for measure i.
C1_OneEventPerMeasure ==
  pc = "done" =>
    /\ Len(piano_part) = Len(measures)
    /\ \A i \in 1..Len(measures) :
         <<piano_part[i]>> = MeasureEvents(measures[i], base_key)

\* a measure of three notes and a measure of one rest: a chord, then a rest
C1_Witness ==
  /\ pc = "done"
  /\ Len(measures) = 2
  /\ NoteCount(measures[1]) = 3
  /\ measures[2] = <<Rest>>
  /\ Len(piano_part) = 2
  /\ piano_part[1].kind = "chord"
  /\ piano_part[2].kind = "rest"

\* C2: the event of a measure is a Rest if and only if the measure has
\* fewer than 3 pitched notes; with 3 or more it is a Chord.
C2_RestIffSparse ==
  pc = "done" =>
    \A i \in 1..Len(measures) :
      /\ i <= Len(piano_part)
      /\ piano_part[i].kind = "rest" <=> NoteCount(measures[i]) < 3
      /\ NoteCount(measures[i]) >= 3 => piano_part[i].kind = "chord"

\* a measure of exactly two pitched notes, the same note twice, and a
\* chord: a Rest
C2_Witness ==
  /\ pc = "done"
  /\ measures = << <<Note(0, 4), ChordElement, Note(0, 4)>> >>
  /\ Len(piano_part) = 1
  /\ piano_part[1].kind = "rest"

\* C3: every event lasts as long as its measure, and every chord event
\* carries one lyric, the degree label bestMatch returns for the measure.
C3_DurationAndLabel ==
  pc = "done" =>
    \A i \in 1..Len(measures) :
      /\ i <= Len(piano_part)
      /\ piano_part[i].duration = MeasureDuration(measures[i])
      /\ piano_part[i].kind = "chord" =>
           piano_part[i].lyrics =
             <<Characters(detect_chord_with_modulation(
                            SelectSeq(measures[i], IsNote), base_key).degree)>>

\* G G G and a rest in A minor: a chord of four quarters labelled III
C3_Witness ==
  /\ pc = "done"
  /\ base_key = Key(3, "minor")
  /\ measures = << <<Note(1, 4), Note(1, 4), Rest, Note(1, 4)>> >>
  /\ Len(piano_part) = 1
  /\ piano_part[1].kind = "chord"
  /\ piano_part[1].duration = 4
  /\ piano_part[1].lyrics = << <<"I", "I", "I">> >>

-----------------------------------------------------------------------------
(* Properties of the key functions (SpecKeys) *)

\* the semitones of the seven degrees of a major and of a natural minor
\* scale above the tonic
DegreeSemitones(mode) ==
  IF mode = "major" THEN <<0, 2, 4, 5, 7, 9, 11>> ELSE <<0, 2, 3, 5, 7, 8, 10>>

\* the pitch class of scale index i (0-based) of key k
ScaleClass(k, i) == (PitchClass(k.tonic) + DegreeSemitones(k.mode)[i + 1]) % 12

\* the key signature of a key, as a number of sharps (negative: flats)
Sharps(k) == IF k.mode = "major" THEN k.tonic ELSE k.tonic - 3

\* C6: candidates(key) is the home key, the key a perfect fifth above with
\* the mode of the home key, the key a perfect fifth below with the mode of
\* the home key, and the relative key of the opposite mode, in this order.
C6_CandidatesSameMode ==
  candidate_keys # <<>> =>
    /\ Len(candidate_keys) = 4
    /\ candidate_keys[1] = music_key
    /\ PitchClass(candidate_keys[2].tonic) = (PitchClass(music_key.tonic) + 7) % 12
    /\ candidate_keys[2].mode = music_key.mode
    /\ PitchClass(candidate_keys[3].tonic) = (PitchClass(music_key.tonic) + 5) % 12
    /\ candidate_keys[3].mode = music_key.mode
    /\ candidate_keys[4].mode # music_key.mode
    /\ Sharps(candidate_keys[4]) = Sharps(music_key)

\* C7: buildTriads returns exactly 7 chords; the chord at scale index i has
\* the pitch classes of scale indices i, (i+2) mod 7 and (i+4) mod 7, three
\* distinct pitch classes; the labels are those of the mode, in order.
C7_SevenTriads ==
  harmony # <<>> =>
    /\ Len(harmony) = 7
    /\ \A i \in 0..6 :
         LET c == harmony[i + 1].chord
         IN  /\ Len(c) = 3
             /\ PitchClass(c[1]) = ScaleClass(music_key, i)
             /\ PitchClass(c[2]) = ScaleClass(music_key, (i + 2) % 7)
             /\ PitchClass(c[3]) = ScaleClass(music_key, (i + 4) % 7)
             /\ Cardinality({PitchClass(c[j]) : j \in 1..3}) = 3
    /\ [j \in 1..7 |-> harmony[j].degree] =
         IF music_key.mode = "major"
           THEN <<"I", "ii", "iii", "IV", "V", "vi", "vii°">>
           ELSE <<"i", "ii°", "III", "iv", "v", "VI", "VII">>

\* the triads of A minor are built and the seventh wraps around: G B D
C7_Witness ==
  /\ music_key = Key(3, "minor")
  /\ harmony # <<>>
  /\ harmony[7] = [degree |-> "VII", chord |-> <<1, 5, 2>>]

-----------------------------------------------------------------------------
(* Properties of distance (SpecDist) *)

NamesOfChord(c) == {c[j] : j \in 1..Len(c)}

\* the names of the pitched notes of a group
NamesOfGroup(g) == {g[j].name : j \in {h \in 1..Len(g) : g[h].kind = "note"}}

SymmetricDifference(A, B) == (A \ B) \cup (B \ A)

\* a set of names as notes of octave 5, lowest name first
RECURSIVE NotesOf(_)
NotesOf(S) ==
  IF S = {} THEN <<>>
  ELSE LET f == CHOOSE x \in S : \A y \in S : x <= y
       IN  <<Note(f, 5)>> \o NotesOf(S \ {f})

\* C8: distance(chord, noteGroup) is the size of the symmetric difference
\* of the chord's names and the names of the pitched notes of the group;
\* octaves, repeated notes and rests do not change it; it is 0 exactly when
\* the two sets are equal.
C8_SymmetricDifference ==
  pc = "measured" =>
    /\ dist = Cardinality(SymmetricDifference(NamesOfChord(chord_candidate),
                                              NamesOfGroup(note_group)))
    /\ dist = chord_distance_no_octave(chord_candidate,
                                       NotesOf(NamesOfGroup(note_group)))
    /\ (dist = 0 <=> NamesOfChord(chord_candidate) = NamesOfGroup(note_group))

\* C E G against C3, a rest, G4 and C4: one name of the chord is missing
C8_Witness ==
  /\ pc = "measured"
  /\ chord_candidate = <<0, 4, 1>>
  /\ note_group = <<Note(0, 3), Rest, Note(1, 4)>>
  /\ dist = 1

-----------------------------------------------------------------------------
(* Properties of bestMatch (SpecMatch) *)

\* the triads of the 4 candidate keys of a home key, by key index and
\* degree index (1-based), each with its distance to a note group
DistanceTable(group, home) ==
  LET keys == get_common_modulation_keys(home)
  IN  [k \in 1..4 |->
        LET h == HarmonyOf[keys[k]]
        IN  [d \in 1..7 |->
              [key |-> keys[k], chord |-> h[d].chord, degree |-> h[d].degree,
               distance |-> chord_distance_no_octave(h[d].chord, group)]]]

\* C4: the distance of bestMatch is the minimum over the 4 candidate keys
\* x 7 triads, and so at most the minimum over the home key's 7 triads.
C4_MinimalDistance ==
  pc = "matched" =>
    LET T == DistanceTable(note_group, base_key)
    IN  /\ \E k \in 1..4, d \in 1..7 : result.distance = T[k][d].distance
        /\ \A k \in 1..4, d \in 1..7 : result.distance <= T[k][d].distance
        /\ \A d \in 1..7 : result.distance <= T[1][d].distance

\* D F# A in C major: no triad of the home key matches, V of G major does
C4_Witness ==
  /\ pc = "matched"
  /\ base_key = Key(0, "major")
  /\ note_group = <<Note(2, 4), Note(6, 4), Note(3, 4)>>
  /\ result.distance = 0
  /\ result.key = Key(1, "major")
  /\ \A d \in 1..7 : DistanceTable(note_group, base_key)[1][d].distance > 0

\* C5: bestMatch returns the (key, triad) pair of minimal distance whose key
\* comes earliest among the candidates and, within that key, whose degree
\* index is lowest.
C5_FirstMinimum ==
  pc = "matched" =>
    LET T == DistanceTable(note_group, base_key)
    IN  \E k \in 1..4, d \in 1..7 :
          /\ result = T[k][d]
          /\ \A k2 \in 1..4, d2 \in 1..7 :
               /\ T[k2][d2].distance >= T[k][d].distance
               /\ (k2 < k \/ (k2 = k /\ d2 < d))
                    => T[k2][d2].distance > T[k][d].distance

\* a single C in C major: I, IV and vi tie at distance 2 and I is returned
C5_Witness ==
  /\ pc = "matched"
  /\ base_key = Key(0, "major")
  /\ note_group = <<Note(0, 4)>>
  /\ result.degree = "I"
  /\ result.key = base_key
  /\ \A d \in {1, 4, 6} : DistanceTable(note_group, base_key)[1][d].distance = 2

\* C9: for a group without pitched notes every candidate triad has distance
\* 3 and bestMatch returns distance 3, the home key and its first degree.
C9_NoPitchedNotes ==
  (pc = "matched" /\ NamesOfGroup(note_group) = {}) =>
    /\ LET T == DistanceTable(note_group, base_key)
       IN  \A k \in 1..4, d \in 1..7 : T[k][d].distance = 3
    /\ result.distance = 3
    /\ result.key = base_key
    /\ result.degree = IF base_key.mode = "major" THEN "I" ELSE "i"

\* two rests in A minor
C9_Witness ==
  /\ pc = "matched"
  /\ base_key = Key(3, "minor")
  /\ note_group = <<Rest, Rest>>
  /\ result.distance = 3
  /\ result.degree = "i"

\* C10: when the names of the pitched notes are those of the home key's
\* triad of degree d, bestMatch returns distance 0, the home key and the
\* label of degree d.
C10_HomeTriad ==
  pc = "matched" =>
    LET h == get_key_harmony_named(base_key)
    IN  \A d \in 1..7 :
          NamesOfGroup(note_group) = NamesOfChord(h[d].chord) =>
            /\ result.distance = 0
            /\ result.key = base_key
            /\ result.degree = h[d].degree

\* C4, E4, G4 in C major give distance 0, C major and I
C10_Witness ==
  /\ pc = "matched"
  /\ base_key = Key(0, "major")
  /\ note_group = <<Note(0, 4), Note(4, 4), Note(1, 4)>>
  /\ result.distance = 0
  /\ result.key = Key(0, "major")
  /\ result.degree = "I"

-----------------------------------------------------------------------------
(* Feature rows of chords (src/scripts/transform.py) *)

\* a music21 Pitch with its octave
Pitch(name, octave) == [name |-> name, octave |-> octave]

\* Pitch.name: the step letter, then one # for every sharp or one - for every
\* flat
StepLetter(f) == <<"F", "C", "G", "D", "A", "E", "B">>[((f + 1) % 7) + 1]
Alter(f) == (f + 1) \div 7

RECURSIVE Repeat(_, _)
Repeat(sign, n) == IF n <= 0 THEN "" ELSE sign \o Repeat(sign, n - 1)

PitchName(f) ==
  StepLetter(f) \o (IF Alter(f) >= 0 THEN Repeat("#", Alter(f))
                    ELSE Repeat("-", -Alter(f)))

\* Pitch.ps: the height of the pitch in semitones (C4 = 60)
StepSemitones(f) == <<5, 0, 7, 2, 9, 4, 11>>[((f + 1) % 7) + 1]
Ps(p) == 12 * (p.octave + 1) + StepSemitones(p.name) + Alter(p.name)

\* Pitch.diatonicNoteNum without the octave: C = 0, D = 1, ... B = 6
StepNumber(f) == <<3, 0, 4, 1, 5, 2, 6>>[((f + 1) % 7) + 1]

\* a chord.Chord met in the chordified accompaniment: ch.pitches keeps the
\* order in which the pitches were stored
ChordObject(pitches, quarterLength, beat, measureNumber) ==
  [pitches |-> pitches, quarterLength |-> quarterLength, beat |-> beat,
   measureNumber |-> measureNumber]

\* ch.root(): the pitch with the most chord members a third, a fifth or a
\* seventh above it, the first stored one among equals; a chord without
\* pitches has no root and the call raises
ThirdsAbove(pitches, i) ==
  Cardinality({d \in {2, 4, 6} :
     \E j \in 1..Len(pitches) :
        (StepNumber(pitches[j].name) - StepNumber(pitches[i].name)) % 7 = d})

RootIndex(pitches) ==
  CHOOSE i \in 1..Len(pitches) :
    \A j \in 1..Len(pitches) :
      \/ ThirdsAbove(pitches, j) < ThirdsAbove(pitches, i)
      \/ ThirdsAbove(pitches, j) = ThirdsAbove(pitches, i) /\ i <= j

Root(chd) == chd.pitches[RootIndex(chd.pitches)]

\* ch.pitchedCommonName: the name of the root and the kind of the chord, read
\* from the pitch classes counted from the root
CommonName(chd) ==
  LET r == PitchClass(Root(chd).name)
      above == {(PitchClass(chd.pitches[i].name) - r) % 12 :
                  i \in 1..Len(chd.pitches)}
  IN  CASE above = {0} -> "note"
        [] above = {0, 4, 7} -> "major triad"
        [] above = {0, 3, 7} -> "minor triad"
        [] above = {0, 3, 6} -> "diminished triad"
        [] above = {0, 4} -> "Major Third"
        [] above = {0, 3} -> "Minor Third"
        [] above = {0, 7} -> "Perfect Fifth"
        [] OTHER -> "chord"

pitchedCommonName(chd) == PitchName(Root(chd).name) \o "-" \o CommonName(chd)

\* a Python dict, kept in insertion order
Item(key, value) == [key |-> key, value |-> value]
DictKeys(d) == [i \in 1..Len(d) |-> d[i].key]
DictGet(d, key) == d[CHOOSE i \in 1..Len(d) : d[i].key = key].value

\* d[key] += amount
DictAdd(d, key, amount) ==
  [i \in 1..Len(d) |->
     IF d[i].key = key THEN Item(key, d[i].value + amount) ELSE d[i]]

\* f"pc_{i}"
PcColumn(i) == "pc_" \o ToString(i)

\* {f"pc_{i}": 0 for i in range(12)}
EmptyHistogram == [i \in 1..12 |-> Item(PcColumn(i - 1), 0)]

\* mutant: every pitch is counted in the bucket of the first pitch
RECURSIVE HistogramLoop_FirstBucket(_, _, _, _)
HistogramLoop_FirstBucket(pitches, duration, i, pc_hist) ==
  IF i > Len(pitches) THEN pc_hist
  ELSE HistogramLoop_FirstBucket(pitches, duration, i + 1,
         DictAdd(pc_hist, PcColumn(PitchClass(pitches[1].name)), duration))

\* for p in pitches: pc_hist[f"pc_{p.pitchClass}"] += duration
RECURSIVE HistogramLoop(_, _, _, _)
HistogramLoop(pitches, duration, i, pc_hist) ==
  IF i > Len(pitches) THEN pc_hist
  ELSE HistogramLoop(pitches, duration, i + 1,
         DictAdd(pc_hist, PcColumn(PitchClass(pitches[i].name)), duration))

\* no key: the value of current_key when the key analysis raised
NoKey == Key(0, None)

\* mutant: the key context is read even when there is none
HasKey_Always(k) == TRUE

\* "if current_key": a Key object is true, None is false
HasKey(k) == k.mode # None

\* root = ch.root().name raises for a chord without pitches
EncodeRaises(chd) == Len(chd.pitches) = 0

\* the dict extract_features_from_chord returns
extract_features_from_chord(chd, key_context) ==
  LET pitches == chd.pitches
      duration == chd.quarterLength
      beat == chd.beat
      measure_num == chd.measureNumber
      pc_hist == HistogramLoop(pitches, duration, 1, EmptyHistogram)
      root == PitchName(Root(chd).name)
      bass == IF Len(pitches) > 0 THEN PitchName(pitches[1].name) ELSE None
      local_key == IF HasKey(key_context) THEN PitchName(key_context.tonic)
                   ELSE None
      mode == IF HasKey(key_context) THEN key_context.mode ELSE None
  IN  <<Item("measure", measure_num),
        Item("beat", beat),
        Item("duration", duration),
        Item("num_notes", Len(pitches)),
        Item("root", root),
        Item("bass", bass),
        Item("local_key", local_key),
        Item("mode", mode)>>
      \o pc_hist
      \o <<Item("chord_name", pitchedCommonName(chd))>>

-----------------------------------------------------------------------------
(* extract_features_from_chord applied to every chord and key context:     *)
(* specification SpecEncode                                                *)

EncodePitches ==
  {Pitch(0, 4), Pitch(4, 4), Pitch(1, 4), Pitch(3, 4), Pitch(0, 5)}

EncodeChords ==
  {ChordObject(pitches, quarterLength, 1, 1) :
     pitches \in SeqsUpTo(EncodePitches, MaxChord),
     quarterLength \in 1..MaxDuration}

EncodeKeys == {NoKey, Key(0, "major"), Key(3, "minor")}

InitEncode ==
  /\ HarmonyIdle
  /\ pc = "encode"
  /\ ch \in EncodeChords
  /\ current_key \in EncodeKeys
  /\ feat = None
  /\ files = <<>> /\ idx = 0 /\ concat = FALSE
  /\ all_dfs = <<>> /\ results = <<>> /\ table = None /\ log = <<>>
  /\ fs = {} /\ disk = {} /\ run = 0 /\ dirs = <<>> /\ listing = <<>> /\ attempted = <<>>
  /\ returned = <<>>

Encode ==
  /\ pc = "encode"
  /\ ~EncodeRaises(ch)
  /\ feat' = extract_features_from_chord(ch, current_key)
  /\ pc' = "encoded"
  /\ UNCHANGED <<ch, current_key, harmonyVars, tableVars, batchVars, log>>

EncodeFails ==
  /\ pc = "encode"
  /\ EncodeRaises(ch)
  /\ pc' = "raised"
  /\ UNCHANGED <<ch, current_key, feat, harmonyVars, tableVars, batchVars, log>>

NextEncode == Encode \/ EncodeFails

SpecEncode == InitEncode /\ [][NextEncode]_vars

-----------------------------------------------------------------------------
(* Properties of the feature rows (SpecEncode) *)

\* the number of pitches of the chord with pitch class k
PitchesOfClass(chd, k) ==
  Cardinality({i \in 1..Len(chd.pitches) : PitchClass(chd.pitches[i].name) = k})

RECURSIVE SumBuckets(_, _)
SumBuckets(row, k) ==
  IF k < 0 THEN 0 ELSE DictGet(row, PcColumn(k)) + SumBuckets(row, k - 1)

\* C15: every feature row has the twelve buckets pc_0..pc_11; bucket k is the
\* duration of the chord times the number of its pitches of pitch class k,
\* and the twelve buckets sum to num_notes times duration
C15_TwelveBuckets ==
  pc = "encoded" =>
    /\ \A k \in 0..11 :
         /\ Cardinality({i \in 1..Len(feat) : feat[i].key = PcColumn(k)}) = 1
         /\ DictGet(feat, PcColumn(k)) = ch.quarterLength * PitchesOfClass(ch, k)
    /\ SumBuckets(feat, 11) = DictGet(feat, "num_notes") * DictGet(feat, "duration")

\* a chord with two pitches of one pitch class and one absent pitch class
C15_Witness ==
  /\ pc = "encoded"
  /\ ch.pitches = <<Pitch(0, 4), Pitch(4, 4), Pitch(0, 5)>>
  /\ ch.quarterLength = 2
  /\ DictGet(feat, "pc_0") = 4
  /\ DictGet(feat, "pc_4") = 2
  /\ DictGet(feat, "pc_7") = 0

\* the pitch of the chord that sounds lowest
LowestPitch(chd) ==
  chd.pitches[CHOOSE i \in 1..Len(chd.pitches) :
                \A j \in 1..Len(chd.pitches) :
                   Ps(chd.pitches[i]) <= Ps(chd.pitches[j])]

\* C20: the bass field of the feature row of a chord with at least one pitch
\* is the name of the lowest-sounding pitch of the chord, in whatever order
\* the chord stores its pitches
C20_BassIsLowest ==
  (pc = "encoded" /\ Len(ch.pitches) > 0) =>
    DictGet(feat, "bass") = PitchName(LowestPitch(ch).name)

-----------------------------------------------------------------------------
(* The table of all harmonized pieces (src/scripts/transform.py) *)

\* file names are sequences of characters
Chars_x == <<"x">>
Chars_Accomp == <<"A", "c", "c", "o", "m", "p">>
Chars_xml == <<".", "x", "m", "l">>
Chars_space == <<" ">>

\* str.endswith
EndsWith(name, suffix) ==
  /\ Len(name) >= Len(suffix)
  /\ SubSeq(name, Len(name) - Len(suffix) + 1, Len(name)) = suffix

\* a file met by os.walk: root is the directory (its components), f the file
\* name, content what converter.parse finds in it
File(root, f, content) == [root |-> root, f |-> f, content |-> content]

\* os.path.join(root, f)
Join(root, f) == [root |-> root, f |-> f]

\* os.path.basename(root): the last component of the directory
Basename(root) == root[Len(root)]

\* what converter.parse finds: no score (parse raises), or a score with its
\* parts; a part is given by the chords its chordified form holds, and
\* analyzable tells whether score.analyze('key') finds a key
Unparseable == [parsed |-> FALSE, analyzable |-> FALSE, home |-> NoKey, parts |-> <<>>]
Score(analyzable, home, parts) ==
  [parsed |-> TRUE, analyzable |-> analyzable, home |-> home, parts |-> parts]

\* a pandas DataFrame: its columns in order and its rows
DataFrame(columns, rows) == [columns |-> columns, rows |-> rows]

\* pd.DataFrame(rows) for a list of dicts: the columns are the keys of the
\* dicts in the order they first appear; no rows, no columns
UnionColumns(columns, more) ==
  columns \o SelectSeq(more, LAMBDA c : \A i \in 1..Len(columns) : columns[i] # c)

RECURSIVE ColumnsOfRows(_, _, _)
ColumnsOfRows(rows, i, columns) ==
  IF i > Len(rows) THEN columns
  ELSE ColumnsOfRows(rows, i + 1, UnionColumns(columns, DictKeys(rows[i])))

DataFrameOfRows(rows) == DataFrame(ColumnsOfRows(rows, 1, <<>>), rows)

\* df[column] = value for a scalar value: the column is added if it is new
\* and every row gets the value
SetColumn(df, column, value) ==
  DataFrame(
    UnionColumns(df.columns, <<column>>),
    [i \in 1..Len(df.rows) |->
       IF \E j \in 1..Len(df.rows[i]) : df.rows[i][j].key = column
         THEN [j \in 1..Len(df.rows[i]) |->
                 IF df.rows[i][j].key = column THEN Item(column, value)
                 ELSE df.rows[i][j]]
         ELSE Append(df.rows[i], Item(column, value))])

\* a row on the columns of the concatenated table: NaN where the row has no
\* value
NaN == "NaN"
Reindex(row, columns) ==
  [j \in 1..Len(columns) |->
     IF \E i \in 1..Len(row) : row[i].key = columns[j]
       THEN Item(columns[j], DictGet(row, columns[j]))
       ELSE Item(columns[j], NaN)]

\* pd.concat(dfs, ignore_index=True) for a list that is not empty: the
\* columns are the union of the columns in the order they first appear
RECURSIVE ConcatColumns(_, _, _)
ConcatColumns(dfs, i, columns) ==
  IF i > Len(dfs) THEN columns
  ELSE ConcatColumns(dfs, i + 1, UnionColumns(columns, dfs[i].columns))

\* mutant: the rows of a later DataFrame are put before the earlier ones
RECURSIVE ConcatRows_Prepend(_, _, _, _)
ConcatRows_Prepend(dfs, i, columns, rows) ==
  IF i > Len(dfs) THEN rows
  ELSE ConcatRows_Prepend(dfs, i + 1, columns,
         [r \in 1..Len(dfs[i].rows) |-> Reindex(dfs[i].rows[r], columns)] \o rows)

RECURSIVE ConcatRows(_, _, _, _)
ConcatRows(dfs, i, columns, rows) ==
  IF i > Len(dfs) THEN rows
  ELSE ConcatRows(dfs, i + 1, columns,
         rows \o [r \in 1..Len(dfs[i].rows) |-> Reindex(dfs[i].rows[r], columns)])

Concat(dfs) ==
  LET columns == ConcatColumns(dfs, 1, <<>>)
  IN  DataFrame(columns, ConcatRows(dfs, 1, columns, <<>>))

\* pd.concat raises ValueError("No objects to concatenate") for an empty list
ConcatRaises(dfs) == Len(dfs) = 0

\* for elem in accomp_chords...: rows.append(extract_features_from_chord(...))
RECURSIVE EncodeLoop(_, _, _, _)
EncodeLoop(accomp_chords, key_context, i, rows) ==
  IF i > Len(accomp_chords) THEN rows
  ELSE EncodeLoop(accomp_chords, key_context, i + 1,
         Append(rows, extract_features_from_chord(accomp_chords[i], key_context)))

\* accomp = score.parts[1] if len(score.parts) > 1 else score.parts[0]
AccompPart(score) ==
  IF Len(score.parts) > 1 THEN score.parts[2] ELSE score.parts[1]

\* the exception process_xml_file raises on this content, None if it returns
ProcessError(content) ==
  IF ~content.parsed THEN "ParseError"
  ELSE IF Len(content.parts) = 0 THEN "IndexError"
  ELSE IF \E i \in 1..Len(AccompPart(content)) :
            EncodeRaises(AccompPart(content)[i]) THEN "ChordException"
  ELSE None

\* mutant: the first staff is read even when there is a second one
process_xml_file_FirstPart(content) ==
  LET accomp == content.parts[1]
      key_context == IF content.analyzable THEN content.home ELSE NoKey
  IN  DataFrameOfRows(EncodeLoop(accomp, key_context, 1, <<>>))

\* the DataFrame process_xml_file returns when it raises nothing
process_xml_file(content) ==
  LET accomp == AccompPart(content)
      key_context == IF content.analyzable THEN content.home ELSE NoKey
  IN  DataFrameOfRows(EncodeLoop(accomp, key_context, 1, <<>>))

\* results[filepath] = df
DictPut(d, key, value) ==
  IF \E j \in 1..Len(d) : d[j].key = key
    THEN [j \in 1..Len(d) |-> IF d[j].key = key THEN Item(key, value) ELSE d[j]]
    ELSE Append(d, Item(key, value))

\* print(f"Error processing {filepath}: {e}")
ErrorLine(filepath, e) == [filepath |-> filepath, error |-> e]

-----------------------------------------------------------------------------
(* Harmonization of every .xml file under a root (src/scripts/accomp.py) *)

Chars_mid == <<".", "m", "i", "d">>
Chars_XML == <<".", "X", "M", "L">>

\* str.lower on the characters of the file names
LowerChar(c) ==
  CASE c = "X" -> "x"
    [] c = "M" -> "m"
    [] c = "L" -> "l"
    [] c = "A" -> "a"
    [] OTHER -> c

Lower(name) == [i \in 1..Len(name) |-> LowerChar(name[i])]

\* os.path.splitext: the name is cut before its last dot, unless that dot
\* starts the name
LastDot(name) ==
  IF \E i \in 1..Len(name) : name[i] = "."
    THEN CHOOSE i \in 1..Len(name) :
           name[i] = "." /\ \A j \in (i + 1)..Len(name) : name[j] # "."
    ELSE 0

SplitExt(name) ==
  LET dot == LastDot(name)
  IN  IF dot <= 1 \/ \A j \in 1..(dot - 1) : name[j] = "."
        THEN <<name, <<>>>>
        ELSE <<SubSeq(name, 1, dot - 1), SubSeq(name, dot, Len(name))>>

\* what full_score.write leaves in a file: the part of the source and the
\* piano part, in the format asked for
Artifact(format, source, piano) ==
  [parsed |-> TRUE, analyzable |-> TRUE, home |-> source.home,
   parts |-> <<source.parts[1], piano>>, format |-> format]

\* the file system: files with their content, one for each path
Path(file) == Join(file.root, file.f)
Exists(files_on_disk, path) == \E file \in files_on_disk : Path(file) = path
Write(files_on_disk, path, content) ==
  {file \in files_on_disk : Path(file) # path}
    \cup {[root |-> path.root, f |-> path.f, content |-> content]}

\* mutant: the artifacts are named after the whole file name
OutputTitle_WithExt(f) == f \o Chars_space \o Chars_Accomp

\* mutant: the artifacts are named after the source alone
OutputTitle_NoSuffix(f) == SplitExt(f)[1]

\* output_title = f"{base_name} Accomp"
OutputTitle(f) == SplitExt(f)[1] \o Chars_space \o Chars_Accomp

\* midi_file_path and xml_file_path of add_piano_accompaniment(path)
MidiPath(path) == Join(path.root, OutputTitle(path.f) \o Chars_mid)
XmlPath(path) == Join(path.root, OutputTitle(path.f) \o Chars_xml)

\* the exception add_piano_accompaniment raises before it writes, None if
\* there is none
HarmonizeError(content) ==
  IF ~content.parsed THEN "ParseError"
  ELSE IF Len(content.parts) = 0 THEN "IndexError"
  ELSE IF ~content.analyzable THEN "AnalysisException"
  ELSE None

\* the content of the file at path
ContentAt(files_on_disk, path) ==
  (CHOOSE file \in files_on_disk : Path(file) = path).content

\* mutant: only lower-case extensions are taken
IsXml_CaseSensitive(filename) == EndsWith(filename, Chars_xml)

\* filename.lower().endswith('.xml')
IsXml(filename) == EndsWith(Lower(filename), Chars_xml)

\* mutant: an exception ends the loop over the file names
AfterFailure_Abort(filenames) == <<>>

\* the except block ends and the loop goes on with the next file name
AfterFailure(filenames) == Tail(filenames)

\* print(f"Failed to process {file_path}: {e}")
FailureLine(file_path, e) == [filepath |-> file_path, error |-> e]

\* the piano part add_piano_accompaniment makes for a parsed source
PianoOf(content) == AccompLoop(content.parts[1], content.home, 1, <<>>)

-----------------------------------------------------------------------------
(* process_all_accomp_files on every walk of a small corpus: specification *)
(* SpecTable                                                               *)

TriadChord == ChordObject(<<Pitch(0, 4), Pitch(4, 4), Pitch(1, 4)>>, 1, 1, 1)
SingleChord == ChordObject(<<Pitch(1, 4)>>, 2, 1, 2)
EmptyChord == ChordObject(<<>>, 1, 1, 2)
MelodyPart == <<SingleChord>>

Contents ==
  {Unparseable,
   Score(TRUE, Key(0, "major"), <<MelodyPart>>),
   Score(TRUE, Key(0, "major"), <<MelodyPart, <<TriadChord, SingleChord>>>>),
   Score(TRUE, Key(0, "major"), <<MelodyPart, <<>>>>),
   Score(FALSE, NoKey, <<MelodyPart, <<TriadChord>>>>),
   Score(TRUE, Key(0, "major"), <<MelodyPart, <<TriadChord, EmptyChord>>>>)}

Roots == {<<"data", "1">>, <<"data", "2">>}

\* "x Accomp.xml", an artifact of the harmonization, and "x.xml", its source
Name_xAccomp == Chars_x \o Chars_space \o Chars_Accomp \o Chars_xml
Name_x == Chars_x \o Chars_xml

\* the MusicXML artifacts add_piano_accompaniment writes for x.xml and, in a
\* second run, for the artifact of the first run
HarmonizedNames ==
  {XmlPath(Join(<<>>, Name_x)).f,
   XmlPath(Join(<<>>, XmlPath(Join(<<>>, Name_x)).f)).f}

\* the source, the MIDI artifact, and a name that ends in "Accomp.XML"
OtherNames ==
  {Name_x,
   MidiPath(Join(<<>>, Name_x)).f,
   Chars_x \o Chars_space \o Chars_Accomp \o Chars_XML}

WellFormed ==
  Score(TRUE, Key(0, "major"), <<MelodyPart, <<TriadChord, SingleChord>>>>)

FilePool ==
  {File(root, XmlPath(Join(root, Name_x)).f, content) :
     root \in Roots, content \in Contents}
    \cup {File(root, name, content) :
            root \in Roots, name \in HarmonizedNames,
            content \in {Unparseable, WellFormed}}
    \cup {File(root, name, WellFormed) : root \in Roots, name \in OtherNames}

\* os.walk meets every file once and the files of one directory in a row
Walks ==
  {w \in SeqsUpTo(FilePool, MaxFiles) :
     /\ \A i, j \in 1..Len(w) :
          i # j => Join(w[i].root, w[i].f) # Join(w[j].root, w[j].f)
     /\ \A i, j, k \in 1..Len(w) :
          (i < j /\ j < k /\ w[i].root = w[k].root) => w[j].root = w[i].root}

InitTable ==
  /\ HarmonyIdle
  /\ pc = "walk"
  /\ files \in Walks
  /\ concat \in BOOLEAN
  /\ idx = 0
  /\ results = <<>>
  /\ all_dfs = <<>>
  /\ table = None
  /\ log = <<>>
  /\ ch = None /\ current_key = None /\ feat = None
  /\ fs = {} /\ disk = {} /\ run = 0 /\ dirs = <<>> /\ listing = <<>> /\ attempted = <<>>
  /\ returned = <<>>

\* mutant: every file whose name ends in .xml is taken
Selected_AnyXml(file) == EndsWith(file.f, Chars_xml)

\* if f.endswith("Accomp.xml")
Selected(file) == EndsWith(file.f, Chars_Accomp \o Chars_xml)

\* a file the walk passes over
SkipFile ==
  /\ pc = "walk"
  /\ idx < Len(files)
  /\ ~Selected(files[idx + 1])
  /\ idx' = idx + 1
  /\ UNCHANGED <<pc, files, concat, all_dfs, results, table, log,
                 harmonyVars, encodeVars, batchVars>>

\* the try block runs to its end
ProcessFile ==
  /\ pc = "walk"
  /\ idx < Len(files)
  /\ Selected(files[idx + 1])
  /\ ProcessError(files[idx + 1].content) = None
  /\ LET file == files[idx + 1]
         filepath == Join(file.root, file.f)
         df == SetColumn(process_xml_file(file.content), "piece_name",
                         Basename(file.root))
     IN  /\ results' = DictPut(results, filepath, df)
         /\ all_dfs' = Append(all_dfs, df)
  /\ idx' = idx + 1
  /\ UNCHANGED <<pc, files, concat, table, log,
                 harmonyVars, encodeVars, batchVars>>

\* process_xml_file raises: the except block prints the error
ProcessFails ==
  /\ pc = "walk"
  /\ idx < Len(files)
  /\ Selected(files[idx + 1])
  /\ ProcessError(files[idx + 1].content) # None
  /\ LET file == files[idx + 1]
     IN  log' = Append(log, ErrorLine(Join(file.root, file.f),
                                      ProcessError(file.content)))
  /\ idx' = idx + 1
  /\ UNCHANGED <<pc, files, concat, all_dfs, results, table,
                 harmonyVars, encodeVars, batchVars>>

\* return pd.concat(all_dfs, ignore_index=True)
ReturnTable ==
  /\ pc = "walk"
  /\ idx = Len(files)
  /\ concat
  /\ ~ConcatRaises(all_dfs)
  /\ table' = Concat(all_dfs)
  /\ pc' = "returned"
  /\ UNCHANGED <<files, idx, concat, all_dfs, results, log,
                 harmonyVars, encodeVars, batchVars>>

\* pd.concat raises and nothing catches it
ConcatFails ==
  /\ pc = "walk"
  /\ idx = Len(files)
  /\ concat
  /\ ConcatRaises(all_dfs)
  /\ pc' = "aborted"
  /\ UNCHANGED <<files, idx, concat, all_dfs, results, table, log,
                 harmonyVars, encodeVars, batchVars>>

\* return results
ReturnResults ==
  /\ pc = "walk"
  /\ idx = Len(files)
  /\ ~concat
  /\ table' = results
  /\ pc' = "returned"
  /\ UNCHANGED <<files, idx, concat, all_dfs, results, log,
                 harmonyVars, encodeVars, batchVars>>

NextTable ==
  \/ SkipFile
  \/ ProcessFile
  \/ ProcessFails
  \/ ReturnTable
  \/ ConcatFails
  \/ ReturnResults

SpecTable == InitTable /\ [][NextTable]_vars

-----------------------------------------------------------------------------
(* Properties of the table of all pieces (SpecTable) *)

\* the files the walk has dealt with so far
Done == {files[i] : i \in 1..idx}

\* score.analyze('key') raises for this file
KeyFails(file) ==
  Selected(file) /\ file.content.parsed /\ ~file.content.analyzable

HasResult(file) ==
  \E j \in 1..Len(results) : results[j].key = Join(file.root, file.f)

ResultOf(file) == DictGet(results, Join(file.root, file.f))

RowsFor(file) == IF HasResult(file) THEN Len(ResultOf(file).rows) ELSE 0

LogCount(file) ==
  Cardinality({i \in 1..Len(log) : log[i].filepath = Join(file.root, file.f)})

RECURSIVE ChordEvents(_, _)
ChordEvents(walk, i) ==
  IF i > Len(walk) THEN 0
  ELSE (IF Selected(walk[i]) /\ ProcessError(walk[i].content) = None
          THEN Len(AccompPart(walk[i].content)) ELSE 0)
       + ChordEvents(walk, i + 1)

\* C13: the table has as many rows as the pieces processed without failure
\* have chord events; a piece that fails has no entry and gives no row
C13_RowCount ==
  /\ (pc = "returned" /\ concat) => Len(table.rows) = ChordEvents(files, 1)
  /\ pc \in {"walk", "returned", "aborted"} =>
       \A file \in Done :
         (Selected(file) /\ ProcessError(file.content) # None) => ~HasResult(file)

\* one well-formed piece of two chords and one piece that does not parse
C13_Witness ==
  /\ pc = "returned"
  /\ concat
  /\ Len(files) = 2
  /\ \E i \in 1..2 : Selected(files[i]) /\ ~files[i].content.parsed
  /\ \E i \in 1..2 :
       /\ Selected(files[i])
       /\ ProcessError(files[i].content) = None
       /\ Len(AccompPart(files[i].content)) = 2
  /\ Len(table.rows) = 2
  /\ Len(log) = 1

\* C14: the run with concat=True is never aborted, whatever pieces fail
C14_NeverAborted ==
  concat => pc # "aborted"

\* the columns of the training table
TrainingColumns ==
  <<"measure", "beat", "duration", "num_notes", "root", "bass", "local_key",
    "mode", "pc_0", "pc_1", "pc_2", "pc_3", "pc_4", "pc_5", "pc_6", "pc_7",
    "pc_8", "pc_9", "pc_10", "pc_11", "chord_name", "piece_name">>

\* C16: the table returned has exactly the columns measure ... piece_name in
\* this order, whatever the pieces, their order and their chord events
C16_FixedColumns ==
  (pc = "returned" /\ concat) => table.columns = TrainingColumns

\* add_piano_accompaniment(file_path) returns: both files are written and
\* the two paths are returned
CallReturns(file_path) ==
  LET source == ContentAt(fs, file_path)
  IN  /\ HarmonizeError(source) = None
      /\ fs' = Write(Write(fs, MidiPath(file_path),
                           Artifact("midi", source, PianoOf(source))),
                     XmlPath(file_path),
                     Artifact("musicxml", source, PianoOf(source)))
      /\ returned' = <<MidiPath(file_path), XmlPath(file_path)>>
      /\ attempted' = Append(attempted, file_path)
      /\ UNCHANGED log

\* add_piano_accompaniment raises before it writes
CallRaises(file_path) ==
  LET source == ContentAt(fs, file_path)
  IN  /\ HarmonizeError(source) # None
      /\ log' = Append(log, FailureLine(file_path, HarmonizeError(source)))
      /\ attempted' = Append(attempted, file_path)
      /\ UNCHANGED <<fs, returned>>

\* full_score.write('midi', ...) raises: nothing is written
CallMidiFails(file_path) ==
  LET source == ContentAt(fs, file_path)
  IN  /\ HarmonizeError(source) = None
      /\ log' = Append(log, FailureLine(file_path, "OSError"))
      /\ attempted' = Append(attempted, file_path)
      /\ UNCHANGED <<fs, returned>>

\* full_score.write('musicxml', ...) raises: the MIDI file is written
CallXmlFails(file_path) ==
  LET source == ContentAt(fs, file_path)
  IN  /\ HarmonizeError(source) = None
      /\ fs' = Write(fs, MidiPath(file_path),
                     Artifact("midi", source, PianoOf(source)))
      /\ log' = Append(log, FailureLine(file_path, "OSError"))
      /\ attempted' = Append(attempted, file_path)
      /\ UNCHANGED returned

-----------------------------------------------------------------------------
(* add_accompaniment_to_all_xml on every small directory tree:            *)
(* specification SpecBatch                                                 *)

ThreeNotes == <<Note(0, 4), Note(4, 4), Note(1, 4)>>

Sources ==
  {Unparseable,
   Score(TRUE, Key(0, "major"), <<<<ThreeNotes, <<Note(0, 4)>>>>>>),
   Score(FALSE, NoKey, <<<<ThreeNotes>>>>)}

Name_xXML == Chars_x \o Chars_XML
Name_xmid == Chars_x \o Chars_mid

SourcePool ==
  {File(root, name, content) :
     root \in Roots, name \in {Name_x, Name_xXML}, content \in Sources}
    \cup {File(root, Name_xmid, Unparseable) : root \in Roots}

\* directory trees of at most MaxFiles files, one file for each path
Disks ==
  {d \in SUBSET SourcePool :
     /\ Cardinality(d) <= MaxFiles
     /\ \A a, b \in d : Path(a) = Path(b) => a = b}

\* the orders in which a listing can give a set of names
Orderings(S) ==
  {q \in SeqsUpTo(S, Cardinality(S)) :
     Len(q) = Cardinality(S) /\ \A i, j \in 1..Len(q) : i # j => q[i] # q[j]}

InitBatch ==
  /\ HarmonyIdle
  /\ pc = "batch"
  /\ fs \in Disks
  /\ disk = fs
  /\ run = 1
  /\ dirs \in Orderings(Roots)
  /\ listing = <<>>
  /\ attempted = <<>>
  /\ returned = <<>>
  /\ log = <<>>
  /\ ch = None /\ current_key = None /\ feat = None
  /\ files = <<>> /\ idx = 0 /\ concat = FALSE
  /\ all_dfs = <<>> /\ results = <<>> /\ table = None

\* os.walk comes to the next directory and lists its files
ListDirectory ==
  /\ pc = "batch"
  /\ listing = <<>>
  /\ dirs # <<>>
  /\ listing' \in Orderings({Path(file) : file \in {g \in fs : g.root = Head(dirs)}})
  /\ dirs' = Tail(dirs)
  /\ UNCHANGED <<pc, fs, disk, run, attempted, returned, log,
                 harmonyVars, encodeVars, tableVars>>

\* a file name that does not end in .xml
PassOver ==
  /\ pc = "batch"
  /\ listing # <<>>
  /\ ~IsXml(Head(listing).f)
  /\ listing' = Tail(listing)
  /\ UNCHANGED <<pc, fs, disk, run, dirs, attempted, returned, log,
                 harmonyVars, encodeVars, tableVars>>

\* add_piano_accompaniment(file_path) returns
Harmonize ==
  /\ pc = "batch"
  /\ listing # <<>>
  /\ IsXml(Head(listing).f)
  /\ CallReturns(Head(listing))
  /\ listing' = Tail(listing)
  /\ UNCHANGED <<pc, disk, run, dirs, harmonyVars, encodeVars, tableVars>>

\* add_piano_accompaniment raises before it writes
HarmonizeRaises ==
  /\ pc = "batch"
  /\ listing # <<>>
  /\ IsXml(Head(listing).f)
  /\ CallRaises(Head(listing))
  /\ listing' = AfterFailure(listing)
  /\ UNCHANGED <<pc, disk, run, dirs, harmonyVars, encodeVars, tableVars>>

\* full_score.write('midi', ...) raises: nothing is written
MidiWriteFails ==
  /\ pc = "batch"
  /\ listing # <<>>
  /\ IsXml(Head(listing).f)
  /\ CallMidiFails(Head(listing))
  /\ listing' = AfterFailure(listing)
  /\ UNCHANGED <<pc, disk, run, dirs, harmonyVars, encodeVars, tableVars>>

\* full_score.write('musicxml', ...) raises: the MIDI file is written
XmlWriteFails ==
  /\ pc = "batch"
  /\ listing # <<>>
  /\ IsXml(Head(listing).f)
  /\ CallXmlFails(Head(listing))
  /\ listing' = AfterFailure(listing)
  /\ UNCHANGED <<pc, disk, run, dirs, harmonyVars, encodeVars, tableVars>>

\* the walk has met every directory
Finish ==
  /\ pc = "batch"
  /\ listing = <<>>
  /\ dirs = <<>>
  /\ pc' = "done"
  /\ UNCHANGED <<fs, disk, run, dirs, listing, attempted, returned, log,
                 harmonyVars, encodeVars, tableVars>>

NextBatch ==
  \/ ListDirectory
  \/ PassOver
  \/ Harmonize
  \/ HarmonizeRaises
  \/ MidiWriteFails
  \/ XmlWriteFails
  \/ Finish

SpecBatch == InitBatch /\ [][NextBatch]_vars

-----------------------------------------------------------------------------
(* Properties of the batch harmonization (SpecBatch) *)

Calls(path) == Cardinality({i \in 1..Len(attempted) : attempted[i] = path})
Failures(path) == Cardinality({i \in 1..Len(log) : log[i].filepath = path})

\* the two artifact names of a source file name: the name without its
\* extension, " Accomp", and the extension of the format
ArtifactName(f, extension) ==
  SplitExt(f)[1] \o <<" ", "A", "c", "c", "o", "m", "p">> \o extension

\* C11: a failing piece aborts only itself: when the run ends every .xml file
\* that was under the root has been attempted once, and every piece without
\* a failure has both of its artifacts, wherever the failing pieces are
C11_FailureAbortsOnlyPiece ==
  pc = "done" =>
    /\ \A file \in disk :
         EndsWith(Lower(file.f), <<".", "x", "m", "l">>) => Calls(Path(file)) = 1
    /\ \A i \in 1..Len(attempted) :
         Failures(attempted[i]) = 0 =>
           /\ Exists(fs, Join(attempted[i].root,
                              ArtifactName(attempted[i].f, <<".", "m", "i", "d">>)))
           /\ Exists(fs, Join(attempted[i].root,
                              ArtifactName(attempted[i].f, <<".", "x", "m", "l">>)))

\* the first piece of the walk fails and the second one, in another
\* directory, gets its artifacts
C11_Witness ==
  /\ pc = "done"
  /\ Len(attempted) = 2
  /\ attempted[1].root # attempted[2].root
  /\ Failures(attempted[1]) = 1
  /\ Failures(attempted[2]) = 0
  /\ attempted[2].f = Name_xXML
  /\ Exists(fs, Join(attempted[2].root, Name_xAccomp))

\* C17: a call of add_piano_accompaniment that returns has written exactly
\* two files, '<base> Accomp.mid' and '<base> Accomp.xml' in the folder of the
\* source, and returns these two paths
C17_TwoArtifacts ==
  [][(pc = "batch" /\ Len(attempted') = Len(attempted) + 1 /\ log' = log) =>
       LET source == Head(listing)
           mid == Join(source.root, ArtifactName(source.f, <<".", "m", "i", "d">>))
           xml == Join(source.root, ArtifactName(source.f, <<".", "x", "m", "l">>))
       IN  /\ returned' = <<mid, xml>>
           /\ Exists(fs', mid) /\ ContentAt(fs', mid).format = "midi"
           /\ Exists(fs', xml) /\ ContentAt(fs', xml).format = "musicxml"
           /\ \A file \in fs' : Path(file) \notin {mid, xml} => file \in fs
           /\ \A file \in fs : Path(file) \notin {mid, xml} => file \in fs'
    ]_vars

\* x.XML of the first directory was harmonized: its two artifacts are there
C17_Witness ==
  /\ pc = "batch"
  /\ Len(attempted) = 1
  /\ attempted[1] = Join(<<"data", "1">>, Name_xXML)
  /\ returned = <<Join(<<"data", "1">>, Chars_x \o Chars_space \o Chars_Accomp \o Chars_mid),
                  Join(<<"data", "1">>, Name_xAccomp)>>
  /\ Cardinality(fs) = Cardinality(disk) + 2

-----------------------------------------------------------------------------
(* distance and bestMatch applied to note groups with tied and respelled   *)
(* notes: specification SpecSpell                                          *)

\* C, E, G, the C a tie carries over, B sharp (which sounds as C) and a rest
SpellElements ==
  {Note(0, 4), Note(4, 4), Note(1, 4), TiedNote(0, 4, "stop"), Note(12, 4), Rest}

SpellKeys == {Key(0, "major"), Key(3, "minor")}

InitSpell ==
  /\ CorpusIdle
  /\ note_group \in SeqsUpTo(SpellElements, MaxGroup)
  /\ \/ /\ pc = "dist"
        /\ chord_candidate \in DistChords
        /\ base_key = None
     \/ /\ pc = "match"
        /\ chord_candidate = None
        /\ base_key \in SpellKeys
  /\ dist = None
  /\ result = None
  /\ music_key = None
  /\ harmony = <<>>
  /\ candidate_keys = <<>>
  /\ measures = <<>>
  /\ piano_part = <<>>

NextSpell == Distance \/ BestMatch

SpecSpell == InitSpell /\ [][NextSpell]_vars

-----------------------------------------------------------------------------
(* Properties of distance on tied and respelled notes (SpecSpell) *)

\* the names of the notes of a group that no tie joins to a neighbour
NamesOfUntied(g) ==
  {g[j].name : j \in {h \in 1..Len(g) : g[h].kind = "note" /\ g[h].tie = None}}

\* the group with every tie taken away
Untied(g) ==
  [j \in 1..Len(g) |->
     IF g[j].kind = "note" THEN Note(g[j].name, g[j].octave) ELSE g[j]]

\* C18 as stated: a tied note of the group gives no name to the set that is
\* compared with the chord, just as a rest gives none
C18_TiesExcluded ==
  pc = "measured" =>
    dist = Cardinality(SymmetricDifference(NamesOfChord(chord_candidate),
                                           NamesOfUntied(note_group)))

\* C18 amended: a tied note is a note and gives its name like any other
\* note; only the elements that are no notes (rests) give none, so taking
\* the ties away never changes the distance
C18_TiesCounted ==
  pc = "measured" =>
    /\ dist = Cardinality(SymmetricDifference(NamesOfChord(chord_candidate),
                                              NamesOfGroup(note_group)))
    /\ dist = chord_distance_no_octave(chord_candidate, Untied(note_group))
    /\ \A j \in 1..Len(note_group) :
         (note_group[j].kind = "note" /\ note_group[j].tie # None
            /\ note_group[j].name \notin NamesOfChord(chord_candidate)) => dist > 0

\* the tied C, E and G against the triad C E G
C18_Witness ==
  /\ pc = "measured"
  /\ chord_candidate = Chord(0, 4, 1)
  /\ note_group = <<TiedNote(0, 4, "stop"), Note(4, 4), Note(1, 4)>>
  /\ dist = 0

\* the pitch classes of a chord and of the notes of a group
ClassesOfChord(c) == {PitchClass(c[j]) : j \in 1..Len(c)}
ClassesOfGroup(g) ==
  {PitchClass(g[j].name) : j \in {h \in 1..Len(g) : g[h].kind = "note"}}

\* every note written with the default name of its pitch class
Respelled(g) ==
  [j \in 1..Len(g) |->
     IF g[j].kind = "note"
       THEN [g[j] EXCEPT !.name = DefaultName(PitchClass(g[j].name))]
       ELSE g[j]]

\* C19: distance counts the pitch classes (0-11) that are in exactly one of
\* the two sets, so another spelling of the same pitch class changes neither
\* the distance nor the result of bestMatch
C19_PitchClasses ==
  /\ pc = "measured" =>
       /\ dist = Cardinality(SymmetricDifference(ClassesOfChord(chord_candidate),
                                                 ClassesOfGroup(note_group)))
       /\ dist = chord_distance_no_octave(chord_candidate, Respelled(note_group))
  /\ pc = "matched" =>
       result = detect_chord_with_modulation(Respelled(note_group), base_key)

-----------------------------------------------------------------------------
(* Further properties of the table of all pieces (SpecTable) *)

\* the chords of the accompaniment staff of a file that can be encoded
Encodable(file) ==
  Cardinality({i \in 1..Len(AccompPart(file.content)) :
                 ~EncodeRaises(AccompPart(file.content)[i])})

\* C21: when the encoding of one chord of a piece fails only that row is
\* skipped: the rows of the other chords of the piece are in the table
C21_OnlyRowSkipped ==
  pc \in {"walk", "returned", "aborted"} =>
    \A file \in Done :
      (Selected(file) /\ file.content.parsed /\ Len(file.content.parts) > 0) =>
        RowsFor(file) = Encodable(file)

\* the piece_name values of the rows of a DataFrame
PieceNames(df) == {DictGet(df.rows[r], "piece_name") : r \in 1..Len(df.rows)}

\* C22: all rows of one piece carry the same piece_name, and rows of two
\* different harmonized files never carry the same piece_name
C22_PieceNameIdentifies ==
  pc \in {"walk", "returned", "aborted"} =>
    /\ \A i \in 1..Len(results) : Cardinality(PieceNames(results[i].value)) <= 1
    /\ \A i, j \in 1..Len(results) :
         i # j => PieceNames(results[i].value) \cap PieceNames(results[j].value) = {}

\* the rows of a list of DataFrames, one after the other
RECURSIVE RowsInOrder(_)
RowsInOrder(dfs) ==
  IF dfs = <<>> THEN <<>>
  ELSE RowsInOrder(SubSeq(dfs, 1, Len(dfs) - 1)) \o dfs[Len(dfs)].rows

\* the row has the values of the other row in all its columns
SameValues(row, other) ==
  \A c \in 1..Len(other) : DictGet(row, other[c].key) = other[c].value

\* C23: the table only grows, by one whole piece when the piece is done:
\* a step leaves the DataFrames collected so far as they are or appends the
\* rows of the piece at hand, in the order of its chords; the table returned
\* holds these blocks in the order of processing, with their values
C23_GrowsByWholePieces ==
  /\ [][pc = "walk" =>
          \/ all_dfs' = all_dfs
          \/ /\ Len(all_dfs') = Len(all_dfs) + 1
             /\ SubSeq(all_dfs', 1, Len(all_dfs)) = all_dfs
             /\ LET file == files[idx + 1]
                    df == all_dfs'[Len(all_dfs')]
                    accomp == AccompPart(file.content)
                IN  /\ Len(df.rows) = Len(accomp)
                    /\ \A r \in 1..Len(accomp) :
                         /\ SameValues(df.rows[r],
                              extract_features_from_chord(accomp[r],
                                IF file.content.analyzable THEN file.content.home
                                ELSE NoKey))
                         /\ DictGet(df.rows[r], "piece_name") = Basename(file.root)]_vars
  /\ [](pc = "returned" /\ concat =>
          /\ Len(table.rows) = Len(RowsInOrder(all_dfs))
          /\ \A n \in 1..Len(table.rows) :
               SameValues(table.rows[n], RowsInOrder(all_dfs)[n]))

\* two pieces with chords, the one of one chord first: its row is the first
\* of the table and the two rows of the second piece follow
C23_Witness ==
  /\ pc = "returned"
  /\ concat
  /\ Len(all_dfs) = 2
  /\ Len(all_dfs[1].rows) = 1
  /\ Len(all_dfs[2].rows) = 2
  /\ Len(table.rows) = 3
  /\ DictGet(table.rows[1], "piece_name") # DictGet(table.rows[2], "piece_name")
  /\ DictGet(table.rows[2], "chord_name") = "C-major triad"
  /\ DictGet(table.rows[3], "num_notes") = 1
  /\ Len(log) = 0

\* C27: only files whose name ends with "Accomp.xml" give rows: every
\* MusicXML artifact of add_piano_accompaniment has such a name and is taken,
\* a source without that ending and a .mid artifact are never read
C27_OnlyAccompXml ==
  /\ \A name \in HarmonizedNames \cup OtherNames :
       EndsWith(XmlPath(Join(<<>>, name)).f,
                <<"A", "c", "c", "o", "m", "p", ".", "x", "m", "l">>)
  /\ pc \in {"walk", "returned", "aborted"} =>
       /\ \A i \in 1..Len(results) :
            EndsWith(results[i].key.f,
                     <<"A", "c", "c", "o", "m", "p", ".", "x", "m", "l">>)
       /\ Len(all_dfs) = Len(results)
       /\ \A file \in Done :
            /\ file.f \in HarmonizedNames => (HasResult(file) \/ LogCount(file) = 1)
            /\ file.f \in OtherNames => (~HasResult(file) /\ LogCount(file) = 0)

\* the source x.xml, its MIDI artifact and its MusicXML artifact in one
\* folder: the two rows of the table are those of the MusicXML artifact
C27_Witness ==
  /\ pc = "returned"
  /\ concat
  /\ Len(files) = 2
  /\ \E i \in 1..2 : files[i].f = Name_x
  /\ \E i \in 1..2 : files[i].f = Name_xAccomp /\ HasResult(files[i])
  /\ Len(results) = 1
  /\ Len(table.rows) = 2

-----------------------------------------------------------------------------
(* Further properties of bestMatch (SpecMatch) *)

\* the sets of names of the seven triads of a key
TriadNameSets(k) == {NamesOfChord(HarmonyOf[k][d].chord) : d \in 1..7}

\* C24: bestMatch never returns the relative key: its triads have the name
\* sets of the triads of the home key, which are met earlier, so the key of
\* the result is the home key, the fifth-up key or the fifth-down key
C24_NeverRelative ==
  pc = "matched" =>
    /\ TriadNameSets(Relative(base_key)) = TriadNameSets(base_key)
    /\ result.key # Relative(base_key)
    /\ result.key \in {base_key,
                       KeyOfPitch(Transpose(base_key.tonic, 7)),
                       KeyOfPitch(Transpose(base_key.tonic, -7))}

\* A, C and E in C major: the triad vi of C major and the triad i of A minor
\* are both at distance 0 and the result is in C major
C24_Witness ==
  /\ pc = "matched"
  /\ base_key = Key(0, "major")
  /\ note_group = <<Note(3, 4), Note(0, 4), Note(4, 4)>>
  /\ result.distance = 0
  /\ result.key = Key(0, "major")
  /\ result.degree = "vi"
  /\ chord_distance_no_octave(HarmonyOf[Key(3, "minor")][1].chord, note_group) = 0

-----------------------------------------------------------------------------
(* add_accompaniment_to_all_xml run again and again over one root:         *)
(* specification SpecRuns                                                  *)

\* a root that holds one source, x.xml or x.XML, in one of its folders
InitRuns ==
  /\ HarmonyIdle
  /\ pc = "batch"
  /\ \E root \in Roots, name \in {Name_x, Name_xXML}, content \in Sources :
       fs = {File(root, name, content)}
  /\ disk = fs
  /\ run = 1
  /\ dirs \in Orderings(Roots)
  /\ listing = <<>>
  /\ attempted = <<>>
  /\ returned = <<>>
  /\ log = <<>>
  /\ ch = None /\ current_key = None /\ feat = None
  /\ files = <<>> /\ idx = 0 /\ concat = FALSE
  /\ all_dfs = <<>> /\ results = <<>> /\ table = None

\* add_accompaniment_to_all_xml is called again on the same root
RunAgain ==
  /\ pc = "done"
  /\ run < MaxRuns
  /\ pc' = "batch"
  /\ run' = run + 1
  /\ disk' = fs
  /\ dirs' \in Orderings(Roots)
  /\ listing' = <<>>
  /\ attempted' = <<>>
  /\ UNCHANGED <<fs, returned, log, harmonyVars, encodeVars, tableVars>>

NextRuns ==
  \/ ListDirectory
  \/ PassOver
  \/ Harmonize
  \/ HarmonizeRaises
  \/ MidiWriteFails
  \/ XmlWriteFails
  \/ Finish
  \/ RunAgain

SpecRuns == InitRuns /\ [][NextRuns]_vars

-----------------------------------------------------------------------------
(* Properties of repeated runs (SpecRuns) *)

\* "x", then k times " Accomp", then ".xml"
RECURSIVE AccompTimes(_)
AccompTimes(k) ==
  IF k = 0 THEN <<>>
  ELSE <<" ", "A", "c", "c", "o", "m", "p">> \o AccompTimes(k - 1)

Generation(k) == <<"x">> \o AccompTimes(k) \o <<".", "x", "m", "l">>

\* C25: a run takes as a source every file that ends in .xml (in any case)
\* and is there when its directory is listed, the artifacts of earlier runs
\* included, and no artifact written during the run; after n runs without a
\* failure the folder of x.xml holds 'x' + k times ' Accomp' + '.xml' for
\* every k from 1 to n
C25_NotIdempotent ==
  pc = "done" =>
    /\ \A file \in disk :
         EndsWith(Lower(file.f), <<".", "x", "m", "l">>) => Calls(Path(file)) = 1
    /\ \A i \in 1..Len(attempted) : Exists(disk, attempted[i])
    /\ log = <<>> =>
         \A file \in disk :
           /\ \A k \in 1..run : Exists(fs, Join(file.root, Generation(k)))
           /\ ~Exists(fs, Join(file.root, Generation(run + 1)))

\* two runs without a failure: x.xml, x Accomp.xml and x Accomp Accomp.xml
\* are in the folder, and the second run took x Accomp.xml as a source
C25_Witness ==
  /\ pc = "done"
  /\ run = 2
  /\ log = <<>>
  /\ Exists(fs, Join(<<"data", "1">>, Name_x))
  /\ Exists(fs, Join(<<"data", "1">>, Generation(1)))
  /\ Exists(fs, Join(<<"data", "1">>, Generation(2)))
  /\ Calls(Join(<<"data", "1">>, Generation(1))) = 1
  /\ Len(attempted) = 2

-----------------------------------------------------------------------------
(* add_piano_accompaniment called on one file of any name: specification   *)
(* SpecCall                                                                *)

\* file names put together from x, " Accomp", ".xml", ".mid" and a dot
Pieces ==
  {Chars_x, Chars_space \o Chars_Accomp, Chars_xml, Chars_mid, <<".">>}

RECURSIVE NamesOfPieces(_)
NamesOfPieces(n) ==
  IF n = 0 THEN {<<>>}
  ELSE NamesOfPieces(n - 1)
         \cup {piece \o name : piece \in Pieces, name \in NamesOfPieces(n - 1)}

CallNames ==
  {name \in NamesOfPieces(MaxPieces) : \E i \in 1..Len(name) : name[i] # "."}

\* the argument of the call is the one element of listing
InitCall ==
  /\ HarmonyIdle
  /\ pc = "call"
  /\ \E root \in Roots, name \in CallNames, content \in Sources :
       /\ fs = {File(root, name, content)}
       /\ listing = <<Join(root, name)>>
  /\ disk = fs
  /\ run = 1
  /\ dirs = <<>>
  /\ attempted = <<>>
  /\ returned = <<>>
  /\ log = <<>>
  /\ ch = None /\ current_key = None /\ feat = None
  /\ files = <<>> /\ idx = 0 /\ concat = FALSE
  /\ all_dfs = <<>> /\ results = <<>> /\ table = None

Returns ==
  /\ pc = "call"
  /\ CallReturns(Head(listing))
  /\ pc' = "called"
  /\ UNCHANGED <<listing, disk, run, dirs, harmonyVars, encodeVars, tableVars>>

Raises ==
  /\ pc = "call"
  /\ \/ CallRaises(Head(listing))
     \/ CallMidiFails(Head(listing))
     \/ CallXmlFails(Head(listing))
  /\ pc' = "raised"
  /\ UNCHANGED <<listing, disk, run, dirs, harmonyVars, encodeVars, tableVars>>

NextCall == Returns \/ Raises

SpecCall == InitCall /\ [][NextCall]_vars

-----------------------------------------------------------------------------
(* Properties of one call (SpecCall) *)

\* the files a step writes
Written == {file \in fs' : file \notin fs}

\* C26: add_piano_accompaniment never writes to the file it reads: what it
\* writes lies in the folder of the source under the base name of the source
\* followed by " Accomp", which is never the path of the source, and the
\* source is as it was after the call, whether the call returns or raises
C26_SourceUntouched ==
  [][pc = "call" =>
       LET source == Head(listing)
           base == SplitExt(source.f)[1] \o <<" ", "A", "c", "c", "o", "m", "p">>
       IN  /\ \A file \in Written :
                /\ file.root = source.root
                /\ file.f \in {base \o <<".", "m", "i", "d">>,
                               base \o <<".", "x", "m", "l">>}
                /\ Path(file) # source
           /\ Exists(fs', source)
           /\ ContentAt(fs', source) = ContentAt(fs, source)
           /\ \A file \in fs : file \in fs'
    ]_vars

\* the call on " Accomp.xml" returns: the source is still there beside its
\* two artifacts
C26_Witness ==
  /\ pc = "called"
  /\ listing = <<Join(<<"data", "1">>, Chars_space \o Chars_Accomp \o Chars_xml)>>
  /\ returned[2] = Join(<<"data", "1">>,
                        Chars_space \o Chars_Accomp \o Chars_space \o Chars_Accomp
                          \o Chars_xml)
  /\ Cardinality(fs) = 3
  /\ \A file \in disk : file \in fs

====
